---- MODULE Spec2Model ----
(***************************************************************************)
(* Model of static/wpbot.js: the metrics dashboard widget.                 *)
(*                                                                         *)
(* The live region (liveEl) is a sequence of child nodes.  A dashboard      *)
(* child is the wrapper built by renderAll together with the closure of    *)
(* its click handlers (data, panelBuilt).  Strings that the code inspects  *)
(* character by character (profile keys) are sequences of one-character    *)
(* strings; keys are drawn from an alphabet without HTML metacharacters,   *)
(* so writing a key into data-key="..." and reading it back with           *)
(* getAttribute returns the key.                                           *)
(***************************************************************************)
EXTENDS Integers, Sequences, FiniteSets, TLC

(* ---------------- bounds ---------------- *)

\* timer ticks explored after the initial fetch
MaxTicks == 1

\* longest profile list of a snapshot
MaxProfiles == 2

\* click counters are kept as 0 (never), 1 (odd), 2 (even, at least two)
Bump(n) == IF n = 2 THEN 1 ELSE n + 1

\* build counters saturate at 2 (= built more than once)
Sat(n) == IF n >= 2 THEN 2 ELSE n + 1

(* ---------------- program constants ---------------- *)

REFRESH_MS == 3000

(* ---------------- cssSafe ---------------- *)

SafeChars ==
  { "a","b","c","d","e","f","g","h","i","j","k","l","m",
    "n","o","p","q","r","s","t","u","v","w","x","y","z",
    "A","B","C","D","E","F","G","H","I","J","K","L","M",
    "N","O","P","Q","R","S","T","U","V","W","X","Y","Z",
    "0","1","2","3","4","5","6","7","8","9","_","-" }

\* String(s).replace(/[^a-zA-Z0-9_-]/g, "_")
cssSafe(s) == [i \in DOMAIN s |-> IF s[i] \in SafeChars THEN s[i] ELSE "_"]

(* ---------------- pure renderers ---------------- *)

\* `x || '-'` : absent, empty string and 0 are falsy
OrDash(x) == IF x = "" THEN "-" ELSE x

statusBadge(ok) ==
  [cls |-> IF ok THEN "ok" ELSE "warn",
   icon |-> IF ok THEN "check" ELSE "hourglass",
   text |-> IF ok THEN "true" ELSE "false"]

WindowItem(w, idx) ==
  [dot |-> IF w.wa_ready THEN "ok" ELSE "warn",
   label |-> IF w.title = "" THEN <<"Window", idx>> ELSE <<w.title>>,
   meta |-> w.url,
   wa_ready |-> statusBadge(w.wa_ready),
   title |-> OrDash(w.title),
   url |-> OrDash(w.url),
   last_seen |-> OrDash(w.last_seen)]

renderWindowsHTML(windows) ==
  IF Len(windows) = 0
    THEN [hint |-> "Bu profil icin pencere/sekme verisi yok.", items |-> <<>>]
    ELSE [hint |-> "", items |-> [idx \in DOMAIN windows |-> WindowItem(windows[idx], idx)]]

buildProfileBodyHTML(p) ==
  [ready |-> statusBadge(p.ready),
   path |-> OrDash(p.path),
   pid |-> OrDash(p.pid),
   last_seen |-> OrDash(p.last_seen),
   windows |-> renderWindowsHTML(p.windows)]

\* one .profile-item: the summary row and its (empty, hidden) details body.
\* clicks counts the click events dispatched to the row, builds the
\* assignments of line 92 to the body.
ProfileItem(p) ==
  [dataKey |-> p.key,
   dot |-> IF p.ready THEN "ok" ELSE "warn",
   label |-> p.key,
   right |-> IF p.ready THEN "ready" ELSE "not ready",
   bodyId |-> cssSafe(p.key),
   bodyHidden |-> TRUE,
   bodyHTML |-> <<>>,
   clicks |-> 0,
   builds |-> 0]

EmptyPanel == [hint |-> "", items |-> <<>>]

buildProfilesPanelHTML(data) ==
  IF Len(data.profiles) = 0
    THEN [hint |-> "Hic profil yok.", items |-> <<>>]
    ELSE [hint |-> "", items |-> [i \in DOMAIN data.profiles |-> ProfileItem(data.profiles[i])]]

renderSummaryMonoBox(data) ==
  [readyStr |-> <<data.prof_ready, data.prof_total>>,
   wa_ready |-> IF data.wa_ready THEN "true" ELSE "false",
   queued_jobs |-> data.queued_jobs,
   running_jobs |-> data.running_jobs,
   pending_targets |-> data.pending_targets]

(* ---------------- inputs: what GET /metrics can answer ---------------- *)

Keys == { <<"a">>, <<"b", "_">>, <<"b", ".">> }

\* a ready profile carries every optional field and one untitled window,
\* a profile that is not ready carries none
MkProfile(k, r) ==
  [key |-> k, ready |-> r,
   path |-> IF r THEN "/data/p" ELSE "",
   pid |-> IF r THEN "4242" ELSE "",
   last_seen |-> IF r THEN "12:00" ELSE "",
   windows |-> IF r THEN << [title |-> "", url |-> "https://web", wa_ready |-> TRUE,
                             last_seen |-> "12:00"] >>
                    ELSE << >>]

\* readiness per key: the two keys that cssSafe identifies differ in it
ReadyOf(k) == k # <<"b", "_">>

Profiles == { MkProfile(k, ReadyOf(k)) : k \in Keys }

\* profile lists with pairwise distinct keys (the snapshot's data model)
ProfileLists ==
  { ps \in UNION { [1..n -> Profiles] : n \in 0..MaxProfiles } :
      \A i, j \in DOMAIN ps : ps[i].key = ps[j].key => i = j }

ReadyCount(ps) == Cardinality({ i \in DOMAIN ps : ps[i].ready })

MkSnapshot(ps) ==
  [wa_ready |-> ReadyCount(ps) > 0,
   prof_ready |-> ReadyCount(ps),
   prof_total |-> Len(ps),
   queued_jobs |-> Len(ps),
   running_jobs |-> ReadyCount(ps),
   pending_targets |-> 0,
   profiles |-> ps]

Snapshots == { MkSnapshot(ps) : ps \in ProfileLists }

\* the JSON text "null" parses without error
JSONNull == [null |-> TRUE]

ParsedValues == Snapshots \cup { JSONNull }

NetDown == [network |-> FALSE, status |-> 0, parses |-> FALSE, value |-> JSONNull]

Resp(status, parses, value) ==
  [network |-> TRUE, status |-> status, parses |-> parses, value |-> value]

Responses ==
  { NetDown, Resp(500, FALSE, JSONNull), Resp(200, FALSE, JSONNull) }
    \cup { Resp(200, TRUE, v) : v \in ParsedValues }

\* res.ok
resOk(r) == r.status >= 200 /\ r.status <= 299

(* ---------------- the DOM nodes ---------------- *)

ShowText == "Profilleri Goster"
HideText == "Profilleri Gizle"

\* wrapper.innerHTML = renderSummaryMonoBox(data), with the closure of the
\* button listener (data, panelBuilt).  btnClicks counts the click events
\* dispatched to the button, panelBuilds the assignments of line 139.
NewWrapper(data) ==
  [tag |-> "wrapper",
   data |-> data,
   card |-> renderSummaryMonoBox(data),
   btnText |-> ShowText,
   btnClicks |-> 0,
   panelBuilt |-> FALSE,
   panelBuilds |-> 0,
   panelHidden |-> TRUE,
   panel |-> EmptyPanel]

Hint(reason) == [tag |-> "hint", text |-> "Metrikler alinamadi", reason |-> reason]

IsWrapper(n) == n.tag = "wrapper"

(* ---------------- click handlers ---------------- *)

\* container.querySelector('#body-' + cssSafe(key)): the first element of
\* the panel, in document order, that carries the id; 0 when there is none
QueryBody(items, key) ==
  LET hits == { j \in DOMAIN items : items[j].bodyId = cssSafe(key) }
  IN  IF hits = {} THEN 0 ELSE CHOOSE j \in hits : \A k \in hits : j <= k

\* (data.profiles || []).find(p => p.key === key): index of the first, or 0
FindProfile(data, key) ==
  LET hits == { j \in DOMAIN data.profiles : data.profiles[j].key = key }
  IN  IF hits = {} THEN 0 ELSE CHOOSE j \in hits : \A k \in hits : j <= k

\* the click listener of row i of the panel of wrapper w
ProfileRowClick(w, i) ==
  LET items == w.panel.items
      key   == items[i].dataKey
      b     == QueryBody(items, key)
      f     == FindProfile(w.data, key)
  IN  IF b = 0 \/ f = 0 THEN w
      ELSE LET needBuild == items[b].bodyHTML = << >>
               built == IF needBuild
                          THEN [items EXCEPT ![b].bodyHTML = << buildProfileBodyHTML(w.data.profiles[f]) >>,
                                             ![b].builds = Sat(@)]
                          ELSE items
           IN  [w EXCEPT !.panel.items = [built EXCEPT ![b].bodyHidden = ~ @]]

\* variant: the guard of line 138 without panelBuilt
ProfilesToggleClick_Rebuilds(w) ==
  LET w1 == IF w.panelHidden
              THEN [w EXCEPT !.panel = buildProfilesPanelHTML(w.data),
                             !.panelBuilt = TRUE,
                             !.panelBuilds = Sat(@)]
              ELSE w
      hidden == ~ w1.panelHidden
  IN  [w1 EXCEPT !.panelHidden = hidden,
                 !.btnText = IF hidden THEN ShowText ELSE HideText]

\* the click listener of #profilesToggle of wrapper w
ProfilesToggleClick(w) ==
  LET build == w.panelHidden /\ ~ w.panelBuilt
      w1 == IF build
              THEN [w EXCEPT !.panel = buildProfilesPanelHTML(w.data),
                             !.panelBuilt = TRUE,
                             !.panelBuilds = Sat(@)]
              ELSE w
      hidden == ~ w1.panelHidden
  IN  [w1 EXCEPT !.panelHidden = hidden,
                 !.btnText = IF hidden THEN ShowText ELSE HideText]

(* ---------------- renderAll and the catch block ---------------- *)

\* renderSummaryMonoBox reads data.prof_ready first: a TypeError for null
RenderThrows(data) == data = JSONNull

\* variant: a dashboard of the same snapshot is left in place
renderAll_Reuses(children, data) ==
  IF \E n \in DOMAIN children : IsWrapper(children[n]) /\ children[n].data = data
    THEN children
    ELSE << NewWrapper(data) >>

\* liveEl.innerHTML = ''; liveEl.appendChild(wrapper)
renderAll(children, data) == << NewWrapper(data) >>

\* variant: the hint is appended to the content instead of replacing it
ErrorDisplay_Appends(children, reason) == Append(children, Hint(reason))

\* liveEl.innerHTML = '<div class="hint">Metrikler alinamadi: ...</div>'
ErrorDisplay(children, reason) == << Hint(reason) >>

\* e.message of an error; status is 0 when the message has none
Err(message, status) == [message |-> message, status |-> status]

\* the value the try block throws for response r, << >> when it completes
Thrown(r) ==
  IF ~ r.network THEN << Err("Failed to fetch", 0) >>
  ELSE IF ~ resOk(r) THEN << Err("HTTP", r.status) >>
  ELSE IF ~ r.parses THEN << Err("Unexpected token", 0) >>
  ELSE IF RenderThrows(r.value) THEN << Err("Cannot read properties of null", 0) >>
  ELSE << >>

\* a dashboard that left the document: the click counters describe the
\* clicks on displayed elements and are dropped
Forget(w) ==
  [w EXCEPT !.btnClicks = 0,
            !.panel.items = [i \in DOMAIN @ |-> [@[i] EXCEPT !.clicks = 0]]]

\* the dashboard a replacement of the live region's content removes; its
\* listeners keep their closure (wrapper, panel, data, panelBuilt)
Removed(children, old) ==
  LET ws == { i \in DOMAIN children : IsWrapper(children[i]) }
  IN  IF ws = {} THEN old ELSE << Forget(children[CHOOSE i \in ws : TRUE]) >>

(* ---------------- state ---------------- *)

VARIABLES
  liveEl,       \* children of #live-metrics
  detached,     \* the dashboard most recently removed from the live region
  cycles,       \* cycle -> "unissued" | "inflight" | "done"
  ticks,        \* timer ticks so far
  timerActive,  \* the interval of line 163 is set
  lastDone,     \* << >> or << [cycle, resp] >> of the cycle that completed last
  staleClicked  \* a listener of the removed dashboard ran after the removal

vars == << liveEl, detached, cycles, ticks, timerActive, lastDone, staleClicked >>

CycleIds == 0..MaxTicks

\* the dashboards of the live region
LiveWrappers == { n \in DOMAIN liveEl : IsWrapper(liveEl[n]) }

\* after the script ran: the first fetch is in flight, the interval is set
Init ==
  /\ liveEl = << >>
  /\ detached = << >>
  /\ cycles = [c \in CycleIds |-> IF c = 0 THEN "inflight" ELSE "unissued"]
  /\ ticks = 0
  /\ timerActive = TRUE
  /\ lastDone = << >>
  /\ staleClicked = FALSE

Issued == Cardinality({ c \in CycleIds : cycles[c] # "unissued" })

\* the interval fires: fetchAndRender runs up to its first await
Tick ==
  /\ timerActive
  /\ ticks < MaxTicks
  /\ ticks' = ticks + 1
  /\ cycles' = [cycles EXCEPT ![ticks + 1] = "inflight"]
  /\ UNCHANGED << liveEl, detached, timerActive, lastDone, staleClicked >>

\* variant: a response older than one already handled is dropped
FetchRendered_DropsOlder(c, r) ==
  /\ cycles[c] = "inflight"
  /\ Thrown(r) = << >>
  /\ IF \E d \in CycleIds : d > c /\ cycles[d] = "done"
       THEN UNCHANGED << liveEl, detached, staleClicked >>
       ELSE /\ liveEl' = renderAll(liveEl, r.value)
            /\ detached' = Removed(liveEl, detached)
            /\ staleClicked' = (staleClicked /\ detached' = detached)
  /\ cycles' = [cycles EXCEPT ![c] = "done"]
  /\ lastDone' = << [cycle |-> c, resp |-> r] >>
  /\ UNCHANGED << ticks, timerActive >>

\* the fetch of cycle c settles with response r and the try block completes
FetchRendered(c, r) ==
  /\ cycles[c] = "inflight"
  /\ Thrown(r) = << >>
  /\ liveEl' = renderAll(liveEl, r.value)
  /\ detached' = Removed(liveEl, detached)
  /\ staleClicked' = (staleClicked /\ detached' = detached)
  /\ cycles' = [cycles EXCEPT ![c] = "done"]
  /\ lastDone' = << [cycle |-> c, resp |-> r] >>
  /\ UNCHANGED << ticks, timerActive >>

\* variant: the catch block calls fetchAndRender again
FetchFailed_Retries(c, r) ==
  LET free == { d \in CycleIds : cycles[d] = "unissued" }
      nxt  == IF free = {} THEN c ELSE CHOOSE d \in free : \A e \in free : d <= e
  IN  /\ cycles[c] = "inflight"
      /\ Thrown(r) # << >>
      /\ liveEl' = ErrorDisplay(liveEl, Thrown(r)[1])
      /\ detached' = Removed(liveEl, detached)
      /\ staleClicked' = (staleClicked /\ detached' = detached)
      /\ cycles' = [d \in CycleIds |-> IF d = c THEN "done"
                                       ELSE IF d = nxt THEN "inflight" ELSE cycles[d]]
      /\ lastDone' = << [cycle |-> c, resp |-> r] >>
      /\ UNCHANGED << ticks, timerActive >>

\* the fetch of cycle c settles with response r and the try block throws
FetchFailed(c, r) ==
  /\ cycles[c] = "inflight"
  /\ Thrown(r) # << >>
  /\ liveEl' = ErrorDisplay(liveEl, Thrown(r)[1])
  /\ detached' = Removed(liveEl, detached)
  /\ staleClicked' = (staleClicked /\ detached' = detached)
  /\ cycles' = [cycles EXCEPT ![c] = "done"]
  /\ lastDone' = << [cycle |-> c, resp |-> r] >>
  /\ UNCHANGED << ticks, timerActive >>

\* a click on the toggle button of the displayed dashboard
ClickToggle(n) ==
  /\ n \in DOMAIN liveEl
  /\ IsWrapper(liveEl[n])
  /\ liveEl' = [liveEl EXCEPT ![n] = [ProfilesToggleClick(@) EXCEPT !.btnClicks = Bump(@)]]
  /\ UNCHANGED << detached, cycles, ticks, timerActive, lastDone, staleClicked >>

\* a click on profile row i of the displayed dashboard
ClickRow(n, i) ==
  /\ n \in DOMAIN liveEl
  /\ IsWrapper(liveEl[n])
  /\ i \in DOMAIN liveEl[n].panel.items
  /\ liveEl' = [liveEl EXCEPT ![n] =
                  [ProfileRowClick(@, i) EXCEPT !.panel.items[i].clicks = Bump(@)]]
  /\ UNCHANGED << detached, cycles, ticks, timerActive, lastDone, staleClicked >>

\* variant: the listener looks its panel up in the document
StaleClickToggle_Document ==
  /\ detached # << >>
  /\ LiveWrappers # {}
  /\ liveEl' = [n \in DOMAIN liveEl |->
                  IF IsWrapper(liveEl[n]) THEN ProfilesToggleClick(liveEl[n]) ELSE liveEl[n]]
  /\ staleClicked' = TRUE
  /\ UNCHANGED << detached, cycles, ticks, timerActive, lastDone >>

\* a click event dispatched to the button of the removed dashboard
StaleClickToggle ==
  /\ detached # << >>
  /\ detached' = << ProfilesToggleClick(detached[1]) >>
  /\ staleClicked' = TRUE
  /\ UNCHANGED << liveEl, cycles, ticks, timerActive, lastDone >>

\* a click event dispatched to row i of the removed dashboard
StaleClickRow(i) ==
  /\ detached # << >>
  /\ i \in DOMAIN detached[1].panel.items
  /\ detached' = << ProfileRowClick(detached[1], i) >>
  /\ staleClicked' = TRUE
  /\ UNCHANGED << liveEl, cycles, ticks, timerActive, lastDone >>

Next ==
  \/ Tick
  \/ \E c \in CycleIds, r \in Responses : FetchRendered(c, r)
  \/ \E c \in CycleIds, r \in Responses : FetchFailed(c, r)
  \/ \E n \in 1..2 : ClickToggle(n)
  \/ \E n \in 1..2, i \in 1..(MaxProfiles + 1) : ClickRow(n, i)
  \/ StaleClickToggle
  \/ \E i \in 1..(MaxProfiles + 1) : StaleClickRow(i)

Spec == Init /\ [][Next]_vars

(* ---------------- vocabulary of the properties ---------------- *)

\* cycle c completes in this step
Completed(c) == cycles[c] = "inflight" /\ cycles'[c] = "done"

\* no cycle completes in this step: the display is not replaced
NoCompletion == \A c \in CycleIds : ~ Completed(c)

\* the three failures of a poll cycle
PollFails(r) == ~ r.network \/ ~ resOk(r) \/ ~ r.parses

Fresh(w) ==
  /\ w.panelHidden /\ ~ w.panelBuilt /\ w.panel = EmptyPanel
  /\ w.btnText = ShowText

\* the profile of snapshot v with key k, as a set (empty or a singleton)
ProfileOf(v, k) == { v.profiles[j] : j \in { x \in DOMAIN v.profiles : v.profiles[x].key = k } }

\* the markup of a row as buildProfilesPanelHTML writes it
RowMarkup(it) == [dataKey |-> it.dataKey, dot |-> it.dot, label |-> it.label,
                  right |-> it.right, bodyId |-> it.bodyId]

(* ---------------- C3 ---------------- *)

\* C3: when a poll cycle fails (network error, non-success status, body
\* that does not parse), the live region holds, as the cycle completes,
\* exactly one child, the error hint, and no dashboard node.
C3_FailureShowsOnlyHint ==
  [][ \A c \in CycleIds :
        (Completed(c) /\ PollFails(lastDone'[1].resp)) =>
          /\ lastDone'[1].cycle = c
          /\ Len(liveEl') = 1
          /\ liveEl'[1].tag = "hint"
          /\ \A n \in DOMAIN liveEl' : ~ IsWrapper(liveEl'[n]) ]_vars

\* a failed cycle has replaced a dashboard whose panel and a profile body
\* were expanded
C3_Witness ==
  /\ lastDone # << >> /\ PollFails(lastDone[1].resp)
  /\ liveEl = << Hint(Thrown(lastDone[1].resp)[1]) >>
  /\ detached # << >> /\ ~ staleClicked
  /\ ~ detached[1].panelHidden
  /\ \E i \in DOMAIN detached[1].panel.items : ~ detached[1].panel.items[i].bodyHidden

(* ---------------- C4 ---------------- *)

\* C4: the interval is never cleared and a tick is possible after any
\* outcome; a tick issues exactly one fetch; a completing cycle, failed
\* or not, issues none.
C4_LoopSurvives ==
  /\ [](timerActive /\ (ticks < MaxTicks => ENABLED Tick))
  /\ [][ /\ ticks' \in { ticks, ticks + 1 }
         /\ (ticks' = ticks + 1) =>
              /\ Issued' = Issued + 1
              /\ cycles[ticks'] = "unissued" /\ cycles'[ticks'] = "inflight"
              /\ \A c \in CycleIds \ { ticks' } : cycles'[c] = cycles[c]
         /\ (ticks' = ticks) => Issued' = Issued
         /\ \A c \in CycleIds : Completed(c) => (Issued' = Issued /\ ticks' = ticks) ]_vars

\* the first cycle failed, and the fetch of a tick is in flight
C4_Witness ==
  /\ lastDone # << >> /\ lastDone[1].cycle = 0 /\ Thrown(lastDone[1].resp) # << >>
  /\ cycles[0] = "done" /\ ticks >= 1 /\ cycles[ticks] = "inflight"
  /\ timerActive

(* ---------------- C5 ---------------- *)

\* C5: a dashboard's panel starts hidden and unbuilt; the first click on
\* the button builds the panel from the snapshot and shows it; every later
\* click only flips the visibility; the panel is built at most once and is
\* never visible while unbuilt; no other click changes the panel's state.
C5_PanelLazyMachine ==
  [][ /\ \A n \in DOMAIN liveEl' : IsWrapper(liveEl'[n]) =>
           LET w == liveEl'[n]
           IN  /\ w.btnClicks = 0 => Fresh(w)
               /\ ~ w.panelHidden => w.panelBuilt
               /\ w.panelBuilt <=> w.panelBuilds = 1
               /\ w.panelBuilds <= 1
               /\ ~ w.panelBuilt => w.panel = EmptyPanel
      /\ NoCompletion =>
           \A n \in LiveWrappers :
             LET w == liveEl[n]
                 x == liveEl'[n]
             IN  /\ (w.btnClicks = 0 /\ x.btnClicks # 0) =>
                       /\ x.panelBuilt /\ ~ x.panelHidden
                       /\ x.panel = buildProfilesPanelHTML(lastDone[1].resp.value)
                       /\ x.btnText = HideText
                 /\ (w.btnClicks # 0 /\ x.btnClicks # w.btnClicks) =>
                       /\ x.panelHidden = ~ w.panelHidden
                       /\ x.panel = w.panel
                       /\ x.panelBuilt
                       /\ x.btnText = IF x.panelHidden THEN ShowText ELSE HideText
                 /\ (x.btnClicks = w.btnClicks) =>
                       /\ x.panelHidden = w.panelHidden
                       /\ x.panelBuilt = w.panelBuilt ]_vars

\* the panel was built, a body in it was built, and the button was then
\* clicked again: the panel is collapsed and keeps its content
C5_Witness ==
  \E n \in LiveWrappers :
    /\ liveEl[n].btnClicks = 2 /\ liveEl[n].panelHidden /\ liveEl[n].panelBuilt
    /\ \E i \in DOMAIN liveEl[n].panel.items :
         liveEl[n].panel.items[i].bodyHTML # << >>

(* ---------------- C6 ---------------- *)

\* C6: when a cycle with a success status and a parsed body completes, the
\* live region holds one node only, and a dashboard in it is collapsed and
\* unbuilt: panel hidden, no panel content, no profile body; for a
\* snapshot, the node is the dashboard of that snapshot.
C6_SuccessResetsExpansion ==
  [][ \A c \in CycleIds :
        (Completed(c) /\ ~ PollFails(lastDone'[1].resp)) =>
          /\ Len(liveEl') = 1
          /\ IsWrapper(liveEl'[1]) =>
               /\ Fresh(liveEl'[1])
               /\ liveEl'[1].btnClicks = 0
               /\ liveEl'[1].panel.items = << >>
          /\ lastDone'[1].resp.value # JSONNull =>
               /\ IsWrapper(liveEl'[1])
               /\ liveEl'[1].card = renderSummaryMonoBox(lastDone'[1].resp.value) ]_vars

\* a poll delivered the snapshot that was already displayed with its panel
\* and a body expanded, and the new dashboard is collapsed
C6_Witness ==
  /\ lastDone # << >> /\ ~ PollFails(lastDone[1].resp)
  /\ Len(liveEl) = 1 /\ IsWrapper(liveEl[1]) /\ Fresh(liveEl[1])
  /\ detached # << >> /\ ~ staleClicked
  /\ detached[1].data = liveEl[1].data
  /\ ~ detached[1].panelHidden
  /\ \E i \in DOMAIN detached[1].panel.items : ~ detached[1].panel.items[i].bodyHidden

(* ---------------- C9 ---------------- *)

\* C9: a tick is possible while earlier fetches are in flight and cancels
\* none of them, and the live region always shows the outcome of the cycle
\* that completed last, whatever its position in the order of the ticks:
\* the dashboard of its value, or the hint of its error.
C9_LastCompletionWins ==
  /\ [] ( /\ (ticks < MaxTicks) => ENABLED Tick
          /\ lastDone # << >> =>
               LET r == lastDone[1].resp
               IN  /\ cycles[lastDone[1].cycle] = "done"
                   /\ Len(liveEl) = 1
                   /\ IF Thrown(r) = << >>
                        THEN /\ IsWrapper(liveEl[1])
                             /\ liveEl[1].data = r.value
                             /\ liveEl[1].card = renderSummaryMonoBox(r.value)
                        ELSE liveEl[1] = Hint(Thrown(r)[1]) )
  /\ [][ (ticks' = ticks + 1) =>
           \A c \in CycleIds : cycles[c] = "inflight" => cycles'[c] = "inflight" ]_vars

\* the response of the first fetch arrived after the response of the tick's
\* fetch and replaced the dashboard of the newer snapshot by an older one
C9_Witness ==
  /\ lastDone # << >> /\ lastDone[1].cycle = 0 /\ Thrown(lastDone[1].resp) = << >>
  /\ cycles[1] = "done"
  /\ Len(liveEl) = 1 /\ IsWrapper(liveEl[1]) /\ liveEl[1].data = lastDone[1].resp.value
  /\ detached # << >> /\ detached[1].data # liveEl[1].data

(* ---------------- C10 ---------------- *)

\* C10: the summary card, the panel rows and every built body of the
\* displayed dashboard come from the snapshot of the poll that rendered it;
\* the live region changes only when a cycle completes or when one of its
\* own elements is clicked; a listener of a removed dashboard leaves it
\* unchanged.
C10_SingleSnapshot ==
  /\ [] ( \A n \in LiveWrappers :
            /\ lastDone # << >>
            /\ Thrown(lastDone[1].resp) = << >>
            /\ LET w == liveEl[n]
                   v == lastDone[1].resp.value
                   full == buildProfilesPanelHTML(v)
               IN  /\ w.card = renderSummaryMonoBox(v)
                   /\ w.panelBuilt =>
                        /\ w.panel.hint = full.hint
                        /\ DOMAIN w.panel.items = DOMAIN full.items
                        /\ \A i \in DOMAIN full.items :
                             RowMarkup(w.panel.items[i]) = RowMarkup(full.items[i])
                   /\ \A i \in DOMAIN w.panel.items :
                        w.panel.items[i].bodyHTML # << >> =>
                          \E j \in DOMAIN v.profiles :
                            w.panel.items[i].bodyHTML = << buildProfileBodyHTML(v.profiles[j]) >> )
  /\ [][ /\ (liveEl' # liveEl) =>
              \/ \E c \in CycleIds : Completed(c)
              \/ /\ DOMAIN liveEl' = DOMAIN liveEl
                 /\ \E n \in LiveWrappers :
                      \/ liveEl'[n].btnClicks # liveEl[n].btnClicks
                      \/ \E i \in DOMAIN liveEl[n].panel.items :
                           liveEl'[n].panel.items[i].clicks # liveEl[n].panel.items[i].clicks
         /\ (NoCompletion /\ detached' # detached) => liveEl' = liveEl ]_vars

\* listeners of the removed dashboard of another snapshot ran and expanded
\* it, while the displayed dashboard has a built body of its own
C10_Witness ==
  /\ staleClicked /\ detached # << >>
  /\ Len(liveEl) = 1 /\ IsWrapper(liveEl[1])
  /\ detached[1].data # liveEl[1].data
  /\ ~ detached[1].panelHidden
  /\ \E i \in DOMAIN detached[1].panel.items : detached[1].panel.items[i].bodyHTML # << >>
  /\ \E i \in DOMAIN liveEl[1].panel.items : liveEl[1].panel.items[i].bodyHTML # << >>

(* ---------------- C1, C2, C7, C8 ---------------- *)

\* C1: in a displayed dashboard the detail body of a profile is empty
\* until the profile's row has been clicked, is non-empty once the row has
\* been clicked, is built at most once, and its content never changes
\* after it was built.
C1_BodyBuiltOnceByOwnRow ==
  [][ /\ \A n \in DOMAIN liveEl' : IsWrapper(liveEl'[n]) =>
           \A i \in DOMAIN liveEl'[n].panel.items :
             LET it == liveEl'[n].panel.items[i]
             IN  /\ it.clicks = 0 => it.bodyHTML = << >>
                 /\ it.clicks # 0 => it.bodyHTML # << >>
                 /\ it.builds <= 1
      /\ NoCompletion =>
           \A n \in LiveWrappers :
             \A i \in DOMAIN liveEl[n].panel.items :
               liveEl[n].panel.items[i].bodyHTML # << >> =>
                 liveEl'[n].panel.items[i].bodyHTML = liveEl[n].panel.items[i].bodyHTML ]_vars

\* C2: in a displayed dashboard the detail body rendered in the item of a
\* row is hidden after an even number of clicks on the row and visible
\* after an odd number.
C2_ParityOfOwnBody ==
  \A n \in LiveWrappers :
    \A i \in DOMAIN liveEl[n].panel.items :
      LET it == liveEl[n].panel.items[i]
      IN  /\ it.clicks \in { 0, 2 } => it.bodyHidden
          /\ it.clicks = 1 => ~ it.bodyHidden

\* C7: a click on the row of key k1 changes the body of k1's item only,
\* leaves the body of every other key as it was, and the content of k1's
\* body is the detail of the profile with key k1.
C7_RowClickFrame ==
  [][ NoCompletion =>
        \A n \in LiveWrappers :
          \A i \in DOMAIN liveEl[n].panel.items :
            LET old == liveEl[n].panel.items
                new == liveEl'[n].panel.items
            IN  (new[i].clicks # old[i].clicks) =>
                  /\ \A j \in DOMAIN old \ { i } :
                       /\ new[j].bodyHTML = old[j].bodyHTML
                       /\ new[j].bodyHidden = old[j].bodyHidden
                       /\ new[j].builds = old[j].builds
                  /\ \A p \in ProfileOf(liveEl[n].data, old[i].dataKey) :
                       new[i].bodyHTML = << buildProfileBodyHTML(p) >> ]_vars

\* C8: a cycle whose response has a success status and a body that
\* parses ends with the dashboard of the parsed value in the live region,
\* and a cycle ends with the error hint only after one of the three
\* failures.
C8_ParsedValueIsRendered ==
  [][ \A c \in CycleIds :
        Completed(c) =>
          LET r == lastDone'[1].resp
          IN  /\ ~ PollFails(r) =>
                   /\ Len(liveEl') = 1
                   /\ IsWrapper(liveEl'[1])
                   /\ liveEl'[1].data = r.value
              /\ (\E n \in DOMAIN liveEl' : liveEl'[n].tag = "hint") => PollFails(r) ]_vars

====
